---------------------------- MODULE Spec2Model ----------------------------
(***************************************************************************)
(* citenet: the crawl orchestration engine of src/citenet/citenet.py.      *)
(* The model covers the SQLite store (publications, citationrelationship,  *)
(* header), the quoting of values on their way into SQL text, the          *)
(* sampling cap, the page classification of detect_captcha, and the event  *)
(* driven state machine around loadFinished and its three timers.          *)
(***************************************************************************)
EXTENDS Integers, Sequences, FiniteSets, TLC

(***************************************************************************)
(* Text.  A string is a sequence of one-character strings.                 *)
(***************************************************************************)
Apos == "'"
DQuote == "\""

\* A dictionary key that is not there (pub["title"] raises KeyError).
Absent == <<"absent">>

RECURSIVE Doubled(_, _)
\* python s.replace(c, c + c)
Doubled(s, c) ==
    IF s = <<>> THEN <<>>
    ELSE (IF Head(s) = c THEN <<c, c>> ELSE <<Head(s)>>) \o Doubled(Tail(s), c)

RECURSIVE Halved(_, _)
\* python s.replace(c + c, c): leftmost, non-overlapping
Halved(s, c) ==
    IF s = <<>> THEN <<>>
    ELSE IF Len(s) >= 2 /\ s[1] = c /\ s[2] = c
         THEN <<c>> \o Halved(SubSeq(s, 3, Len(s)), c)
         ELSE <<Head(s)>> \o Halved(Tail(s), c)

\* quote_identifier: the text with every double quote doubled.
quote_identifier(s) == Doubled(s, DQuote)

\* save_publication, first loop: v.replace("'", "''") then quote_identifier.
EscapeValue(v) == IF v = Absent THEN Absent ELSE quote_identifier(Doubled(v, Apos))

\* The value SQLite reads from the text between two double quotes ("%s" in the
\* select and in the edge insert): a doubled double quote is one character.
SqlDq(s) == Halved(s, DQuote)

\* The value SQLite reads from the text between two apostrophes ('%s' in the
\* publication insert): a doubled apostrophe is one character.
SqlSq(s) == Halved(s, Apos)

\* '_%010d' % total_records appended to the key: the separator and the
\* fixed-width numeral, kept as one element.
PubIdOf(key, n) == key \o <<"_", ToString(n)>>


(***************************************************************************)
(* The store: the tables of create_db.  publications and                   *)
(* citationrelationship are kept in rowid order.                           *)
(***************************************************************************)

\* primary key (BibtexKey, Title) of Publications
PubKeyFree(pubs, row) ==
    \A i \in 1..Len(pubs) :
        ~(pubs[i].bibtexkey = row.bibtexkey /\ pubs[i].title = row.title)

\* CitationRelationship created without its primary key.
EdgeKeyFreeNoKey(edges, e) == TRUE

\* primary key (Citation_ID, Publication_ID) of CitationRelationship
EdgeKeyFree(edges, e) == \A i \in 1..Len(edges) : edges[i] # e

\* cur.fetchone() of a select over publications: any row the where clause
\* matches (the select has no order by), or nothing.
Matching(pubs, bib, col, val) ==
    {i \in 1..Len(pubs) : pubs[i].bibtexkey = bib /\ pubs[i][col] = val}

\* get_existing_pub_id: the pubids the three selects can answer, {<<>>} when no
\* row is found.  bib, title and author are the texts put between the double
\* quotes of the query.
get_existing_pub_id(pubs, bib, title, author) ==
    LET m1 == Matching(pubs, SqlDq(bib), "title", SqlDq(title))
        m2 == Matching(pubs, SqlDq(bib), "title", SqlDq(Halved(title, Apos)))
        m3 == Matching(pubs, SqlDq(bib), "author", SqlDq(author))
        m  == IF m1 # {} THEN m1 ELSE IF m2 # {} THEN m2 ELSE m3
    IN  IF m = {} THEN {<<>>} ELSE {pubs[i].pubid : i \in m}

\* The dictionary after the first loops of save_publication: every value
\* escaped, searchlevel set.
EscapedPub(pub, level) ==
    [bibtexkey |-> EscapeValue(pub.bibtexkey), title |-> EscapeValue(pub.title),
     author |-> EscapeValue(pub.author), cites |-> pub.cites,
     citedby |-> pub.citedby, searchlevel |-> level]

\* The row the insert into publications writes: each value is read back from
\* between apostrophes.
PubRow(e, pubid) ==
    [bibtexkey |-> SqlSq(e.bibtexkey), pubid |-> SqlSq(pubid),
     title |-> SqlSq(e.title), author |-> SqlSq(e.author), cites |-> e.cites,
     citedby |-> e.citedby, searchlevel |-> e.searchlevel]

\* The row the insert into citationrelationship writes.
EdgeRow(pubid, parent) == <<SqlDq(pubid), SqlDq(parent)>>

\* save_publication with the lookup answering `found`: the store afterwards.
\* res is "ok" (committed, True), "failed" (sqlite3.Error: rolled back, False);
\* new_pub and edge_dup tell whether a publication row was to be inserted and
\* whether the edge row was already there.
SaveWith(st, level, parent, e, found) ==
    LET new_pub == found = <<>>
        pubid   == IF new_pub THEN PubIdOf(e.bibtexkey, st.total) ELSE found
        row     == PubRow(e, pubid)
        pubOk   == ~new_pub \/ PubKeyFree(st.pubs, row)
        pubs1   == IF new_pub THEN Append(st.pubs, row) ELSE st.pubs
        edge    == EdgeRow(pubid, parent)
        edgeOk  == level = 0 \/ EdgeKeyFree(st.edges, edge)
        edges1  == IF level > 0 THEN Append(st.edges, edge) ELSE st.edges
    IN  IF pubOk /\ edgeOk
        THEN [pubs |-> pubs1, edges |-> edges1,
              total |-> IF new_pub THEN st.total + 1 ELSE st.total,
              res |-> "ok", pubid |-> pubid, new_pub |-> new_pub,
              edge_dup |-> FALSE]
        ELSE [pubs |-> st.pubs, edges |-> st.edges, total |-> st.total,
              res |-> "failed", pubid |-> pubid, new_pub |-> new_pub,
              edge_dup |-> ~edgeOk]

\* save_publication(pub): every store it can leave.  A missing title or
\* author raises KeyError before anything is written (res "raised").
save_publication(st, level, parent, pub) ==
    LET e == EscapedPub(pub, level)
    IN  IF e.title = Absent \/ e.author = Absent
        THEN {[pubs |-> st.pubs, edges |-> st.edges, total |-> st.total,
               res |-> "raised", pubid |-> <<>>, new_pub |-> FALSE,
               edge_dup |-> FALSE]}
        ELSE {SaveWith(st, level, parent, e, f) :
                f \in get_existing_pub_id(st.pubs, e.bibtexkey, e.title, e.author)}


(***************************************************************************)
(* The remote service.  A paper is named by a number; its BibTeX export    *)
(* page parses (bibtex2dic) to PaperDict, and the listing entry carries    *)
(* its cites id and cited-by count.  Paper 0 is a page that is no BibTeX   *)
(* record.                                                                 *)
(***************************************************************************)
MaxCited == 12
CrawlPapers == {1, 2, 3}
QuotePapers == {4, 5, 6, 7}
\* Paper 8 + c is cited c times.
CitedPapers == {8 + c : c \in 0..MaxCited}
Papers == CrawlPapers \cup QuotePapers \cup CitedPapers

PaperKey(p) ==
    CASE p \in {1, 2, 3} -> <<"k">>
      [] p \in {4, 5} -> <<"q">>
      [] p \in {6, 7} -> <<"d">>
      [] p \in CitedPapers -> <<"c">>
      [] OTHER -> <<"g">>

PaperTitle(p) ==
    CASE p = 1 -> <<"t">>
      [] p = 2 -> <<"u">>
      [] p = 3 -> <<"v">>
      [] p = 4 -> <<Apos>>
      [] p = 5 -> <<Apos, Apos>>
      [] p \in {6, 7} -> <<DQuote>>
      [] p \in CitedPapers -> <<"w">>
      [] OTHER -> Absent

PaperAuthor(p) ==
    CASE p \in {1, 3, 6} -> <<"x">>
      [] p \in {2, 4, 7} -> <<"y">>
      [] p = 5 -> <<"z">>
      [] p \in CitedPapers -> <<"z">>
      [] OTHER -> Absent

PaperCitedBy(p) ==
    CASE p = 1 -> 12
      [] p = 3 -> 3
      [] p \in CitedPapers -> p - 8
      [] OTHER -> 0

\* dump_papers / add_more_results: d = bibtex2dic(text) plus the cites id and
\* the cited-by count of the listing entry `meta`.
PaperDict(text, meta) ==
    [bibtexkey |-> PaperKey(text), title |-> PaperTitle(text),
     author |-> PaperAuthor(text), cites |-> meta, citedby |-> PaperCitedBy(meta)]

RECURSIVE EscapedTimes(_, _)
\* The text of a value of a dictionary that save_publication has already
\* rewritten n times (the dictionary is changed in place).
EscapedTimes(v, n) == IF n = 0 THEN v ELSE EscapeValue(EscapedTimes(v, n - 1))

SeedDict(p, n) ==
    [PaperDict(p, p) EXCEPT !.bibtexkey = EscapedTimes(@, n),
                            !.title = EscapedTimes(@, n),
                            !.author = EscapedTimes(@, n)]

(***************************************************************************)
(* SamplingPolicy: the cap, as computed in mrcd and again in dump_papers.  *)
(* c is the CitedBy value of the row (an integer column).                  *)
(***************************************************************************)
\* mrcd without the "cite at least one article" lines.
MrcdCapNoClamp(c, usePercent, pplv, maxplv) ==
    IF usePercent THEN (c * pplv) \div 100 ELSE maxplv

mrcd_max_progress(c, usePercent, pplv, maxplv) ==
    IF usePercent
    THEN LET m == (c * pplv) \div 100
         IN  IF m = 0 /\ c > 0 THEN 1 ELSE m
    ELSE maxplv

dump_max_progress(c, usePercent, pplv, maxplv) ==
    IF usePercent
    THEN LET m == (c * pplv) \div 100
         IN  IF m = 0 /\ c > 0 THEN 1 ELSE m
    ELSE maxplv

(***************************************************************************)
(* BackoffGuard: detect_captcha.  A page is the six signals the function   *)
(* reads.                                                                  *)
(***************************************************************************)
Signals ==
    [sorry_url : BOOLEAN, automated_txt : BOOLEAN, captcha_named : BOOLEAN,
     forbidden_txt : BOOLEAN, robot_txt : BOOLEAN, captcha_id : BOOLEAN]

\* An element matching #captcha[name='captcha'] also matches [id*=captcha].
Pages == {sg \in Signals : sg.captcha_named => sg.captcha_id}

NoSignals ==
    [sorry_url |-> FALSE, automated_txt |-> FALSE, captcha_named |-> FALSE,
     forbidden_txt |-> FALSE, robot_txt |-> FALSE, captcha_id |-> FALSE]

\* detect_captcha with the block test before the captcha test.
DetectClassBlockFirst(sg) ==
    IF sg.sorry_url \/ sg.automated_txt \/ sg.captcha_named \/ sg.forbidden_txt
       \/ sg.robot_txt \/ sg.captcha_id
    THEN IF sg.sorry_url \/ sg.automated_txt THEN "Block"
         ELSE IF sg.captcha_named \/ sg.captcha_id THEN "Captcha"
         ELSE IF sg.forbidden_txt THEN "Forbidden"
         ELSE "FalseAlarm"
    ELSE "Clean"

detect_class(sg) ==
    IF sg.sorry_url \/ sg.automated_txt \/ sg.captcha_named \/ sg.forbidden_txt
       \/ sg.robot_txt \/ sg.captcha_id
    THEN IF sg.captcha_named \/ sg.captcha_id THEN "Captcha"
         ELSE IF sg.sorry_url \/ sg.automated_txt THEN "Block"
         ELSE IF sg.forbidden_txt THEN "Forbidden"
         ELSE "FalseAlarm"
    ELSE "Clean"

TIMEOUT_CAPTCHA == 300
TIMEOUT_BLOCK == 360

\* delay of detect_captcha without FORCE_DELAY, as passed to timer.start in
\* units of 60*1000 ms.
detect_delay(cls, attempts) ==
    CASE cls = "Captcha" -> TIMEOUT_CAPTCHA + attempts * 30
      [] cls = "Block" -> TIMEOUT_BLOCK + attempts * 30
      [] cls = "Forbidden" -> 1
      [] OTHER -> 0

\* python s[:n]
PySlice(s, n) ==
    IF n >= 0 THEN SubSeq(s, 1, IF n < Len(s) THEN n ELSE Len(s))
    ELSE SubSeq(s, 1, IF Len(s) + n > 0 THEN Len(s) + n ELSE 0)


\* self.timer.start(delay * 60 * 1000): the seconds the timer waits.
timer_seconds(delay) == delay * 60

\* normalvariate(0, sigma): a real number of either sign; the model takes the
\* whole values within MaxJitter.
MaxJitter == 1
Jitter == (0 - MaxJitter)..MaxJitter

\* delay of detect_captcha: with FORCE_DELAY the draw j is added to the extra
\* delay of a captcha or a block.
detect_delay_forced(cls, attempts, force, j) ==
    IF force /\ cls \in {"Captcha", "Block"}
    THEN detect_delay(cls, attempts) + j
    ELSE detect_delay(cls, attempts)

(***************************************************************************)
(* BibtexParser: findNextBracket and bibtex2dic.  Indexes are python's,    *)
(* from 0, and -1 is "not found".                                          *)
(***************************************************************************)

\* A slice bound of a text of length n: negative bounds count from the end.
PyBound(i, n) ==
    IF i < 0 THEN (IF i + n < 0 THEN 0 ELSE i + n) ELSE IF i > n THEN n ELSE i

\* python t[a:b]
PySub(t, a, b) == SubSeq(t, PyBound(a, Len(t)) + 1, PyBound(b, Len(t)))

\* python t.find(sub, start)
PyFind(t, sub, start) ==
    LET from == PyBound(start, Len(t))
        at   == {i \in from..(Len(t) - Len(sub)) :
                    SubSeq(t, i + 1, i + Len(sub)) = sub}
    IN  IF at = {} THEN 0 - 1
        ELSE CHOOSE i \in at : \A j \in at : i <= j

Whitespace == {" ", "\n", "\t"}

RECURSIVE PyLStrip(_)
PyLStrip(t) ==
    IF t # <<>> /\ Head(t) \in Whitespace THEN PyLStrip(Tail(t)) ELSE t

RECURSIVE PyRStrip(_)
PyRStrip(t) ==
    IF t # <<>> /\ t[Len(t)] \in Whitespace
    THEN PyRStrip(SubSeq(t, 1, Len(t) - 1)) ELSE t

\* python t.strip()
PyStrip(t) == PyRStrip(PyLStrip(t))

RECURSIVE NextBracketFrom(_, _, _)
\* the while loop of findNextBracket, nleft brackets open before s[ind]
NextBracketFrom(s, ind, nleft) ==
    IF ind >= Len(s) THEN 0 - 1
    ELSE LET c  == s[ind + 1]
             n1 == IF c = "}" THEN nleft - 1
                   ELSE IF c = "{" THEN nleft + 1 ELSE nleft
         IN  IF n1 = 0 THEN ind ELSE NextBracketFrom(s, ind + 1, n1)

findNextBracket(s, ind) == NextBracketFrom(s, ind, 1)

\* A dict: a function from keys to values.  res[k] = v
DictPut(res, k, v) ==
    [x \in (DOMAIN res) \cup {k} |-> IF x = k THEN v ELSE res[x]]

KeyType == <<"t", "y", "p", "e">>
KeyBibtexkey == <<"b", "i", "b", "t", "e", "x", "k", "e", "y">>

RECURSIVE BibFields(_, _, _)
\* the while loop of bibtex2dic
BibFields(t, p, res) ==
    IF ~(p < Len(t)) THEN res
    ELSE LET p1 == PyFind(t, <<"=", "{">>, p)
         IN  IF p1 = 0 - 1 THEN res
             ELSE LET k  == PyStrip(PySub(t, p + 2, p1))
                      p2 == findNextBracket(t, p1 + 2)
                  IN  IF p2 = 0 - 1 THEN res
                      ELSE BibFields(t, p2, DictPut(res, k, PySub(t, p1 + 2, p2)))

bibtex2dic(t) ==
    LET p0 == PyFind(t, <<"{">>, 0)
        r0 == DictPut(<<>>, KeyType, PySub(t, 1, p0))
        p  == PyFind(t, <<",">>, p0)
        r1 == DictPut(r0, KeyBibtexkey, PySub(t, p0 + 1, p))
    IN  BibFields(t, p, r1)


(***************************************************************************)
(* State.  The tables of the SQLite file, the fields of the Citenet        *)
(* object, the three QTimers, the loads the web view has not yet answered  *)
(* and the windows.                                                        *)
(***************************************************************************)
VARIABLES
    publications, citationrelationship, header,
    total_records, ATTEMPTS, was_paused, to_be_dumped, dbcon,
    cursor_set, current_level, current_row, progress, level_limit, max_level,
    ppl, maxpl, use_percent, scrape_done, current_max_progress,
    parent_bibtex,
    inflight, last_url, error_timer, timeout_retry_timer, timer,
    ss, goto_more, lpList, lpPapers, lpCurr, lpEnd, lpOrigURL,
    win, win4, enabled, seedPapers, candidates, esc,
    FORCE_DELAY, checkDelay, bibtext, bibdic,
    page, status, saved, dberror, exited

vars ==
    <<publications, citationrelationship, header,
      total_records, ATTEMPTS, was_paused, to_be_dumped, dbcon,
      cursor_set, current_level, current_row, progress, level_limit, max_level,
      ppl, maxpl, use_percent, scrape_done, current_max_progress,
      parent_bibtex,
      inflight, last_url, error_timer, timeout_retry_timer, timer,
      ss, goto_more, lpList, lpPapers, lpCurr, lpEnd, lpOrigURL,
      win, win4, enabled, seedPapers, candidates, esc,
      FORCE_DELAY, checkDelay, bibtext, bibdic,
      page, status, saved, dberror, exited>>

\* The state as one record, for the handlers that call one another.  page,
\* status, saved and dberror tell which page the step under way looked at, how
\* detect_captcha classified it, what save_publication did and where the
\* store raised sqlite3.Error, and start empty in every step.  fault is where
\* the store will raise sqlite3.Error in the step (disk, lock), "none" for a
\* store that works; exited tells that the process has ended.
World ==
    [publications |-> publications, citationrelationship |-> citationrelationship,
     header |-> header, total_records |-> total_records, ATTEMPTS |-> ATTEMPTS,
     was_paused |-> was_paused,
     to_be_dumped |-> to_be_dumped, dbcon |-> dbcon, cursor_set |-> cursor_set,
     current_level |-> current_level, current_row |-> current_row,
     progress |-> progress, level_limit |-> level_limit, max_level |-> max_level,
     ppl |-> ppl, maxpl |-> maxpl, use_percent |-> use_percent,
     scrape_done |-> scrape_done, current_max_progress |-> current_max_progress,
     parent_bibtex |-> parent_bibtex, inflight |-> inflight,
     last_url |-> last_url, error_timer |-> error_timer,
     timeout_retry_timer |-> timeout_retry_timer, timer |-> timer,
     ss |-> ss, goto_more |-> goto_more,
     lpList |-> lpList, lpPapers |-> lpPapers, lpCurr |-> lpCurr, lpEnd |-> lpEnd,
     lpOrigURL |-> lpOrigURL, win |-> win, win4 |-> win4, enabled |-> enabled,
     seedPapers |-> seedPapers, candidates |-> candidates, esc |-> esc,
     FORCE_DELAY |-> FORCE_DELAY, checkDelay |-> checkDelay,
     bibtext |-> bibtext, bibdic |-> bibdic,
     page |-> NoSignals, status |-> "none", saved |-> <<>>,
     dberror |-> "none", exited |-> exited, fault |-> "none"]

Becomes(w) ==
    /\ publications' = w.publications
    /\ citationrelationship' = w.citationrelationship
    /\ header' = w.header
    /\ total_records' = w.total_records
    /\ ATTEMPTS' = w.ATTEMPTS
    /\ was_paused' = w.was_paused
    /\ to_be_dumped' = w.to_be_dumped
    /\ dbcon' = w.dbcon
    /\ cursor_set' = w.cursor_set
    /\ current_level' = w.current_level
    /\ current_row' = w.current_row
    /\ progress' = w.progress
    /\ level_limit' = w.level_limit
    /\ max_level' = w.max_level
    /\ ppl' = w.ppl
    /\ maxpl' = w.maxpl
    /\ use_percent' = w.use_percent
    /\ scrape_done' = w.scrape_done
    /\ current_max_progress' = w.current_max_progress
    /\ parent_bibtex' = w.parent_bibtex
    /\ inflight' = w.inflight
    /\ last_url' = w.last_url
    /\ error_timer' = w.error_timer
    /\ timeout_retry_timer' = w.timeout_retry_timer
    /\ timer' = w.timer
    /\ ss' = w.ss
    /\ goto_more' = w.goto_more
    /\ lpList' = w.lpList
    /\ lpPapers' = w.lpPapers
    /\ lpCurr' = w.lpCurr
    /\ lpEnd' = w.lpEnd
    /\ lpOrigURL' = w.lpOrigURL
    /\ win' = w.win
    /\ win4' = w.win4
    /\ enabled' = w.enabled
    /\ seedPapers' = w.seedPapers
    /\ candidates' = w.candidates
    /\ esc' = w.esc
    /\ FORCE_DELAY' = w.FORCE_DELAY
    /\ checkDelay' = w.checkDelay
    /\ bibtext' = w.bibtext
    /\ bibdic' = w.bibdic
    /\ page' = w.page
    /\ status' = w.status
    /\ saved' = w.saved
    /\ dberror' = w.dberror
    /\ exited' = w.exited

Url(kind, id, start) == [kind |-> kind, id |-> id, start |-> start]
NoUrl == Url("none", 0, 0)

NoHeader ==
    [exists |-> FALSE, ppl |-> 0, maxpl |-> 0, max_level |-> 0,
     current_level |-> 0, current_row |-> 0, progress |-> 0, level_limit |-> 0,
     use_percent |-> "0", scrape_done |-> "0"]


(***************************************************************************)
(* Handlers.  Each takes the state w and answers the states it can leave;  *)
(* a handler that raises leaves what it had assigned before the raise.     *)
(***************************************************************************)

\* load_url: (re)start the 30 s error timer, remember the url, ask the view.
load_url(w, url) ==
    [w EXCEPT !.error_timer = TRUE, !.last_url = url, !.inflight = Append(@, url)]

\* url_timeout: arm the 5 minute retry timer.
url_timeout(w) == [w EXCEPT !.timeout_retry_timer = TRUE]

\* url_retry
url_retry(w) == load_url(w, w.last_url)

\* dump_scrape_progress: update header set value = ... for the five cursor keys.
dump_scrape_progress(w) ==
    IF w.header.exists
    THEN [w EXCEPT !.header.current_row = w.current_row,
                   !.header.current_level = w.current_level,
                   !.header.progress = w.progress,
                   !.header.level_limit = w.level_limit,
                   !.header.scrape_done = IF w.scrape_done THEN "1" ELSE "0"]
    ELSE w

\* What one save_publication call did: the key and title it was given, the
\* level it ran at, what it returned and the pubid it used.
SaveEntry(pub, level, r) ==
    [bibtexkey |-> pub.bibtexkey, title |-> pub.title, level |-> level,
     res |-> r.res, pubid |-> r.pubid, new_pub |-> r.new_pub,
     edge_dup |-> r.edge_dup]

RECURSIVE SaveAll(_, _, _, _)
\* for d in batch: save_publication(d), an exception of one record caught.
SaveAll(st, level, parent, batch) ==
    IF batch = <<>> THEN {st}
    ELSE UNION {SaveAll([pubs |-> r.pubs, edges |-> r.edges, total |-> r.total,
                         log |-> Append(st.log,
                                         SaveEntry(Head(batch), level, r))],
                        level, parent, Tail(batch)) :
                  r \in save_publication(st, level, parent, Head(batch))}

StoreOf(w) ==
    [pubs |-> w.publications, edges |-> w.citationrelationship,
     total |-> w.total_records, log |-> <<>>]

WithStore(w, st) ==
    [w EXCEPT !.publications = st.pubs, !.citationrelationship = st.edges,
              !.total_records = st.total, !.saved = st.log]

\* The places of a flush where the store can raise sqlite3.Error.
Faults == {"lookup", "publication", "edge", "cap_query", "progress_write"}

\* save_publication(pub) with the store raising sqlite3.Error at `at`: in the
\* lookup get_existing_pub_id logs it and calls exit(-1) (res "exit"); in the
\* insert of the publication row or of the edge row the record is rolled back
\* and False returned (res "error").
save_publication_at(st, level, parent, pub, at) ==
    LET e == EscapedPub(pub, level)
        same(r, f) ==
            [pubs |-> st.pubs, edges |-> st.edges, total |-> st.total,
             res |-> r,
             pubid |-> IF f = <<>> /\ r = "error"
                       THEN PubIdOf(e.bibtexkey, st.total) ELSE f,
             new_pub |-> (f = <<>> /\ r = "error"), edge_dup |-> FALSE]
    IN  IF e.title = Absent \/ e.author = Absent
        THEN save_publication(st, level, parent, pub)
        ELSE IF at = "lookup" THEN {same("exit", <<>>)}
        ELSE {IF (at = "publication" /\ f = <<>>) \/ (at = "edge" /\ level > 0)
              THEN same("error", f)
              ELSE SaveWith(st, level, parent, e, f) :
                f \in get_existing_pub_id(st.pubs, e.bibtexkey, e.title, e.author)}

\* for d in batch: save_publication(d), the store raising sqlite3.Error at `at`
\* for the first record; nothing follows an exit.
SaveAllAt(st, level, parent, batch, at) ==
    UNION {LET st1 == [pubs |-> r.pubs, edges |-> r.edges, total |-> r.total,
                       log |-> Append(st.log, SaveEntry(Head(batch), level, r))]
           IN  IF r.res = "exit" THEN {st1}
               ELSE SaveAll(st1, level, parent, Tail(batch)) :
             r \in save_publication_at(st, level, parent, Head(batch), at)}

\* dump_papers_to_db: save every pending record, then the progress header; an
\* sqlite3.Error of dump_scrape_progress is logged and the header left.
dump_papers_to_db(w) ==
    LET batch == [i \in 1..Len(w.to_be_dumped) |->
                     PaperDict(w.to_be_dumped[i][1], w.to_be_dumped[i][2])]
        st0   == StoreOf(w)
        sts   == IF w.fault \in {"lookup", "publication", "edge"} /\ batch # <<>>
                 THEN SaveAllAt(st0, w.current_level, w.parent_bibtex, batch,
                                w.fault)
                 ELSE SaveAll(st0, w.current_level, w.parent_bibtex, batch)
        first(st) == IF st.log = <<>> THEN "none" ELSE st.log[1].res
    IN  {LET x == WithStore(w, st)
         IN  IF first(st) = "exit"
             THEN [x EXCEPT !.exited = TRUE, !.dberror = w.fault]
             ELSE IF w.fault = "progress_write"
             THEN [x EXCEPT !.dberror = w.fault]
             ELSE [dump_scrape_progress(x) EXCEPT
                      !.dberror = IF first(st) = "error" THEN w.fault ELSE @] :
           st \in sts}

\* do_continue_data_collection: look the parent row up and request its
\* cited-by listing at offset progress.
do_continue_data_collection(w) ==
    IF ~w.dbcon \/ ~w.cursor_set \/ w.current_row + 1 > Len(w.publications)
    THEN {w}
    ELSE LET r == w.publications[w.current_row + 1]
         IN  {load_url([w EXCEPT !.parent_bibtex = f, !.ss = "next"],
                       Url("cites", r.cites, w.progress)) :
                f \in get_existing_pub_id(w.publications, r.bibtexkey, r.title,
                                          r.author)}

\* timer_wakeup
timer_wakeup(w) == do_continue_data_collection(w)

\* continue_data_collection: read the header, stop if the scrape is done.
continue_data_collection(w) ==
    IF ~w.header.exists THEN {w}
    ELSE LET h  == w.header
             w1 == [w EXCEPT !.cursor_set = TRUE, !.ppl = h.ppl,
                             !.max_level = h.max_level,
                             !.current_level = h.current_level,
                             !.current_row = h.current_row,
                             !.progress = h.progress,
                             !.use_percent = (h.use_percent = "1"),
                             !.maxpl = h.maxpl, !.level_limit = h.level_limit,
                             !.scrape_done = (h.scrape_done = "1")]
         IN  IF w1.scrape_done
             THEN {[w1 EXCEPT !.win4 = FALSE, !.enabled.win0 = TRUE]}
             ELSE do_continue_data_collection(w1)

\* stop_scrape
stop_scrape(w) ==
    [w EXCEPT !.was_paused = TRUE, !.enabled.win3 = TRUE, !.enabled.win0 = TRUE,
              !.candidates = {}, !.win4 = FALSE, !.win = "win0"]

Min(a, b) == IF a < b THEN a ELSE b

\* dump_papers after the flush, the progress kept: the next parent row, and
\* the next level behind the last row of the level.
AdvanceRowKeepProgress(x) ==
    LET row == x.current_row + 1
        lim == row = x.level_limit
    IN  [x EXCEPT !.to_be_dumped = <<>>,
                  !.current_row = row,
                  !.level_limit = IF lim THEN Len(x.publications) ELSE @,
                  !.current_level = IF lim THEN @ + 1 ELSE @]

\* dump_papers after the flush, the next level entered with the old limit.
AdvanceRowKeepLimit(x) ==
    LET row == x.current_row + 1
        lim == row = x.level_limit
    IN  [x EXCEPT !.to_be_dumped = <<>>, !.progress = 0,
                  !.current_row = row,
                  !.current_level = IF lim THEN @ + 1 ELSE @]

\* dump_papers after the flush: progress 0, the next parent row, and the next
\* level behind the last row of the level.
advance_row(x) ==
    LET row == x.current_row + 1
        lim == row = x.level_limit
    IN  [x EXCEPT !.to_be_dumped = <<>>, !.progress = 0,
                  !.current_row = row,
                  !.level_limit = IF lim THEN Len(x.publications) ELSE @,
                  !.current_level = IF lim THEN @ + 1 ELSE @]

\* The crawl is done one level before max_level.
ScrapeDoneEarly(x) == x.current_level + 1 = x.max_level

\* dump_papers: self.scrape_done = self.current_level == self.max_level
scrape_done_now(x) == x.current_level = x.max_level

\* The parent is finished only when the cap is reached, however short the
\* listing page was.
ParentDoneAtCapOnly(prog, maxp, i) == prog >= maxp

\* dump_papers: all the articles for this paper have been retrieved.
parent_done(prog, maxp, i) == prog >= maxp \/ (i < 10 /\ prog < maxp)

\* dump_papers: queue the records of the listing, and when the parent is
\* finished flush them and advance the cursor.  `click` is what the user does
\* while the status change at its top processes events.  An sqlite3.Error of
\* the select of the cap is logged and the handler returns; after exit(-1)
\* nothing follows.
dump_papers(w, click) ==
    LET w0   == IF click = "stop" /\ w.win4 THEN stop_scrape(w) ELSE w
        has  == w0.current_row + 1 <= Len(w0.publications)
        c    == IF has THEN w0.publications[w0.current_row + 1].citedby ELSE 0
        maxp == dump_max_progress(c, w0.use_percent, w0.ppl, w0.maxpl)
        need == IF maxp - w0.progress < 1 THEN 1 ELSE maxp - w0.progress
        n    == Min(Len(w0.lpPapers), need)
        more == [i \in 1..Min(n, Len(w0.lpList)) |->
                    <<w0.lpPapers[i], w0.lpList[i]>>]
        w1   == [w0 EXCEPT !.to_be_dumped = @ \o more, !.progress = @ + n]
        done == parent_done(w1.progress, maxp, n)
        after == IF done
                 THEN {IF x.exited THEN x ELSE advance_row(x) :
                          x \in dump_papers_to_db(w1)}
                 ELSE {w1}
        fin(x) ==
            LET y == [x EXCEPT !.scrape_done = scrape_done_now(x)]
            IN  IF x.exited THEN {x}
                ELSE IF y.scrape_done
                THEN {[y EXCEPT !.win4 = FALSE, !.win = "win0",
                                !.enabled.win0 = TRUE]}
                ELSE IF y.was_paused THEN {[y EXCEPT !.was_paused = FALSE]}
                ELSE do_continue_data_collection(y)
    IN  IF ~w0.dbcon \/ (w0.use_percent /\ ~has) THEN {w0}
        ELSE IF w0.fault = "cap_query" THEN {[w0 EXCEPT !.dberror = w0.fault]}
        ELSE UNION {fin(x) : x \in after}

\* dogoto2 with add_more_results: list the candidates and show the seed
\* selection window.
dogoto2(w) ==
    LET k  == Min(Len(w.lpPapers), Len(w.lpList))
        cs == {w.lpPapers[i] : i \in 1..k} \ {0}
        w1 == [w EXCEPT !.candidates = @ \cup cs,
                        !.esc = [p \in Papers |-> IF p \in cs THEN 0 ELSE @[p]]]
    IN  IF Len(w.lpPapers) > Len(w.lpList) THEN w1
        ELSE [w1 EXCEPT !.win = "win2", !.enabled.win1 = TRUE]

\* self.lpEnd()
CallEnd(w, click) ==
    IF w.lpEnd = "dump_papers" THEN dump_papers(w, click) ELSE {dogoto2(w)}

\* loadPapers: take the links of the page, trim them to the quota, and load
\* the first export page, or finish at once when there is none.
loadPapers(w, u, end, links, click) ==
    LET prog == IF w.cursor_set THEN w.progress ELSE 0
        lst  == IF w.current_max_progress > 0
                THEN PySlice(links, w.current_max_progress - prog + 1)
                ELSE links
        w1   == [w EXCEPT !.lpList = lst, !.lpCurr = 0, !.lpEnd = end,
                          !.lpPapers = <<>>, !.lpOrigURL = u]
    IN  IF Len(lst) = 0 THEN CallEnd(w1, click)
        ELSE {load_url([w1 EXCEPT !.ss = "load_papers"], Url("bibtex", lst[1], 0))}

\* mrcd: the cap of the parent row, then loadPapers(dump_papers).
mrcd(w, u, links, click) ==
    LET has == w.current_row + 1 <= Len(w.publications)
        c   == IF has THEN w.publications[w.current_row + 1].citedby ELSE 0
    IN  IF w.use_percent /\ ~has THEN {w}
        ELSE loadPapers([w EXCEPT !.current_max_progress =
                            mrcd_max_progress(c, w.use_percent, w.ppl, w.maxpl)],
                        u, "dump_papers", links, click)


\* create_db: drop and create the tables, save the seeds at level 0, write the
\* header.  cfg is what the user typed into the settings form.
create_db(w, cfg) ==
    LET n     == Len(w.seedPapers)
        batch == [i \in 1..n |-> SeedDict(w.seedPapers[i], w.esc[w.seedPapers[i]])]
        empty == [pubs |-> <<>>, edges |-> <<>>, total |-> w.total_records,
                  log |-> <<>>]
        hdr   == [exists |-> TRUE, ppl |-> cfg.ppl, maxpl |-> cfg.maxpl,
                  max_level |-> cfg.max_level + 1, current_level |-> 1,
                  current_row |-> 0, progress |-> 0, level_limit |-> n,
                  use_percent |-> IF cfg.use_percent THEN "1" ELSE "0",
                  scrape_done |-> "0"]
        seeds == {w.seedPapers[i] : i \in 1..n}
    IN  {[WithStore(w, st) EXCEPT
             !.header = hdr, !.current_level = 1, !.scrape_done = FALSE,
             !.was_paused = FALSE,
             !.esc = [p \in Papers |-> IF p \in seeds THEN @[p] + 1 ELSE @[p]]] :
           st \in SaveAll(empty, 0, w.parent_bibtex, batch)}

\* begin_data_collection
begin_data_collection(w, cfg) ==
    UNION {continue_data_collection([x EXCEPT !.enabled.win3 = FALSE,
                                              !.win4 = TRUE]) :
             x \in create_db([w EXCEPT !.dbcon = TRUE], cfg)}

\* do_resume_search: open the chosen file, count its publications, and start
\* with the top-level page.
do_resume_search(w) ==
    load_url([w EXCEPT !.dbcon = TRUE, !.total_records = Len(w.publications),
                       !.goto_more = FALSE, !.ss = "stage0"],
             Url("ncr", 0, 0))

\* goto2: start the seed search.
goto2(w) ==
    load_url([w EXCEPT !.enabled.win1 = FALSE, !.goto_more = TRUE,
                       !.ss = "stage0"],
             Url("ncr", 0, 0))

AllEnabled == [win0 |-> TRUE, win1 |-> TRUE, win3 |-> TRUE]

\* The classes that park the machine, the false alarm among them.
BlockingFalseAlarm == {"Captcha", "Block", "Forbidden", "FalseAlarm"}

\* The classes for which detect_captcha answers a wake-up time.
Blocking == {"Captcha", "Block", "Forbidden"}

\* loadFinished at ss = "load_papers": keep the text of the export page, then
\* load the next export page, or the listing again after the last one.
load_papers_stage(w, text) ==
    LET w4 == [w EXCEPT !.lpPapers = Append(@, text), !.lpCurr = @ + 1]
    IN  IF w4.lpCurr = Len(w4.lpList)
        THEN {load_url([w4 EXCEPT !.ss = "load_orig"], w4.lpOrigURL)}
        ELSE IF w4.lpCurr < Len(w4.lpList)
        THEN {load_url(w4, Url("bibtex", w4.lpList[w4.lpCurr + 1], 0))}
        ELSE {w4}

\* loadFinished(ok) for the load of u, the page showing the signals sg and the
\* links `links`.
loadFinished(w, u, ok, sg, links, click) ==
    IF w.was_paused
    THEN {[w EXCEPT !.timeout_retry_timer = FALSE, !.error_timer = FALSE]}
    ELSE IF ~ok THEN {url_timeout(w)}
    ELSE
      LET cls  == detect_class(sg)
          w1   == [w EXCEPT !.timeout_retry_timer = FALSE, !.error_timer = FALSE,
                            !.timer = 0, !.page = sg, !.status = cls]
          text == IF u.kind = "bibtex" THEN u.id ELSE 0
          lnk  == IF u.kind \in {"cites", "query"} THEN links ELSE <<>>
      IN
      IF cls \in Blocking
      THEN UNION {
             LET w2 == [w1 EXCEPT !.ATTEMPTS = @ + 1,
                                  !.timer = detect_delay_forced(
                                                cls, w1.ATTEMPTS, w1.FORCE_DELAY, j),
                                  !.enabled = AllEnabled]
             IN  IF w2.to_be_dumped # <<>>
                 THEN {IF x.exited THEN x ELSE [x EXCEPT !.to_be_dumped = <<>>] :
                          x \in dump_papers_to_db(w2)}
                 ELSE {w2} :
             j \in IF w1.FORCE_DELAY THEN Jitter ELSE {0}}
      ELSE
        LET w3 == [w1 EXCEPT !.ATTEMPTS = 0]
        IN  CASE w3.ss = "stage0" ->
                   {load_url([w3 EXCEPT !.ss = "stage1"], Url("settings", 0, 0))}
              [] w3.ss = "stage1" ->
                   {[w3 EXCEPT !.ss = "stage2",
                               !.inflight = IF u.kind = "settings"
                                            THEN Append(@, Url("save", 0, 0))
                                            ELSE @]}
              [] w3.ss = "stage2" ->
                   IF ~w3.goto_more
                   THEN continue_data_collection(
                            [w3 EXCEPT !.enabled.win0 = FALSE, !.win4 = TRUE,
                                       !.was_paused = FALSE])
                   ELSE {load_url([w3 EXCEPT !.ss = "stage3"], Url("query", 0, 0))}
              [] w3.ss = "stage3" ->
                   loadPapers([w3 EXCEPT !.current_max_progress = 0], u,
                              "dogoto2", lnk, click)
              [] w3.ss = "load_papers" -> load_papers_stage(w3, text)
              [] w3.ss = "load_orig" -> CallEnd(w3, click)
              [] w3.ss = "next" -> mrcd(w3, u, lnk, click)
              [] OTHER -> {w3}


(***************************************************************************)
(* Bounds of the environment and the inputs the user and the service can   *)
(* give.                                                                   *)
(***************************************************************************)
MaxInflight == 1
MaxInflightSlow == 2
MaxAttempts == 2
MaxSeeds == 2
MaxPage == 1
MaxTotal == 2
MaxEsc == 1
MaxLevelEdit == 2
MaxOffset == 2
MaxPending == 12

Sig(a, b, c, d, e, f) ==
    [sorry_url |-> a, automated_txt |-> b, captcha_named |-> c,
     forbidden_txt |-> d, robot_txt |-> e, captcha_id |-> f]

CleanPage == NoSignals

\* One page of each class.
CrawlPages ==
    {CleanPage,
     Sig(FALSE, FALSE, FALSE, FALSE, TRUE, FALSE),
     Sig(FALSE, FALSE, FALSE, TRUE, FALSE, FALSE),
     Sig(TRUE, FALSE, FALSE, FALSE, FALSE, FALSE),
     Sig(FALSE, FALSE, FALSE, FALSE, FALSE, TRUE)}

\* A listing page of ten links, and the short pages.
FullPage == [i \in 1..10 |-> (i % 3) + 1]

ShortPages == UNION {[1..n -> CrawlPapers] : n \in 0..MaxPage}

PageChoices == {FullPage} \cup ShortPages

SeedChoices(cands) ==
    {sq \in UNION {[1..n -> cands] : n \in 1..MaxSeeds} :
        \A i, j \in 1..Len(sq) : i # j => sq[i] # sq[j]}

Configs ==
    {[use_percent |-> up, ppl |-> 50, maxpl |-> mp, max_level |-> ml] :
        up \in BOOLEAN, mp \in {1, 11}, ml \in 1..MaxLevelEdit}

InitCrawl ==
    /\ publications = <<>>
    /\ citationrelationship = <<>>
    /\ header = NoHeader
    /\ total_records = 0
    /\ ATTEMPTS = 0
    /\ was_paused = FALSE
    /\ to_be_dumped = <<>>
    /\ dbcon = FALSE
    /\ cursor_set = FALSE
    /\ current_level = 0
    /\ current_row = 0
    /\ progress = 0
    /\ level_limit = 0
    /\ max_level = 0
    /\ ppl = 0
    /\ maxpl = 0
    /\ use_percent = FALSE
    /\ scrape_done = FALSE
    /\ current_max_progress = 0
    /\ parent_bibtex = <<>>
    /\ inflight = <<>>
    /\ last_url = NoUrl
    /\ error_timer = FALSE
    /\ timeout_retry_timer = FALSE
    /\ timer = 0
    /\ ss = "none"
    /\ goto_more = FALSE
    /\ lpList = <<>>
    /\ lpPapers = <<>>
    /\ lpCurr = 0
    /\ lpEnd = "none"
    /\ lpOrigURL = NoUrl
    /\ win = "win0"
    /\ win4 = FALSE
    /\ enabled = AllEnabled
    /\ seedPapers = <<>>
    /\ candidates = {}
    /\ esc = [p \in Papers |-> 0]
    /\ FORCE_DELAY = FALSE
    /\ checkDelay = FALSE
    /\ page = NoSignals
    /\ status = "none"
    /\ saved = <<>>
    /\ dberror = "none"
    /\ exited = FALSE

\* The state after construction: no text has been parsed.
Init ==
    /\ InitCrawl
    /\ bibtext = <<>>
    /\ bibdic = <<>>

\* The cited-by listing asked for at offset start: a listing has few entries
\* (any page below MaxOffset, nothing behind it) or more than ten (a last
\* short page at offset 10).
ListingAt(start, pages) ==
    IF start < MaxOffset THEN pages
    ELSE IF start = 10 THEN {lk \in pages : Len(lk) < 10}
    ELSE {<<>>}

Without(sq, i) == SubSeq(sq, 1, i - 1) \o SubSeq(sq, i + 1, Len(sq))

\* The web view answers one of the loads it was asked for: ok or not, a page
\* of pgs, and the links of a search page (qlinks) or of a cited-by listing
\* (clinks).
LoadFinishedAt(oks, pgs, qlinks, clinks, faults) ==
    \E i \in 1..Len(inflight), f \in faults :
      LET u == inflight[i]
          w == [World EXCEPT !.inflight = Without(@, i), !.fault = f]
          handled == ~was_paused
          toEnd == handled /\ win4 /\ ss \in {"load_orig", "next"}
      IN  \E ok \in (IF handled THEN oks ELSE {TRUE}) :
          \E sg \in (IF handled /\ ok THEN pgs ELSE {CleanPage}) :
          \E links \in (IF handled /\ ok /\ u.kind = "query" /\ ss = "stage3"
                        THEN qlinks
                        ELSE IF handled /\ ok /\ u.kind = "cites" /\ ss = "next"
                        THEN ListingAt(u.start, clinks) ELSE {<<>>}) :
          \E click \in (IF toEnd /\ ok THEN {"none", "stop"} ELSE {"none"}) :
            /\ detect_class(sg) \in Blocking => ATTEMPTS < MaxAttempts
            /\ \E w2 \in loadFinished(w, u, ok, sg, links, click) :
                 /\ Len(w2.to_be_dumped) <= MaxPending
                 /\ Len(w2.lpPapers) <= MaxPending
                 /\ Becomes(w2)

\* The same with a store that does not fail.
LoadFinishedIn(oks, pgs, qlinks, clinks) ==
    LoadFinishedAt(oks, pgs, qlinks, clinks, {"none"})

\* The back-off timer fires.
TimerWakeup ==
    /\ timer > 0
    /\ Len(inflight) < MaxInflight
    /\ \E w2 \in timer_wakeup([World EXCEPT !.timer = 0]) : Becomes(w2)

\* The 30 s error timer fires.
UrlTimeout ==
    /\ error_timer
    /\ Becomes(url_timeout([World EXCEPT !.error_timer = FALSE]))

\* The 5 minute retry timer fires, fewer than n loads unanswered.
UrlRetryWithin(n) ==
    /\ timeout_retry_timer
    /\ Len(inflight) < n
    /\ Becomes(url_retry([World EXCEPT !.timeout_retry_timer = FALSE]))

\* The 5 minute retry timer fires after the view has answered.
UrlRetry == UrlRetryWithin(MaxInflight)

\* The 5 minute retry timer fires, the view still loading or not.
UrlRetrySlow == UrlRetryWithin(MaxInflightSlow)

\* btnNewSearch
Goto0 ==
    /\ win = "win0" /\ enabled.win0
    /\ Becomes([World EXCEPT !.FORCE_DELAY = checkDelay, !.was_paused = FALSE,
                             !.win = "win1", !.enabled.win1 = TRUE])

\* win1.btnNextStep
Goto2 ==
    /\ win = "win1" /\ enabled.win1
    /\ Len(inflight) < MaxInflight
    /\ Becomes(goto2(World))

\* win2.btnAdd as often as wanted, then win2.btnNextStep
Goto3 ==
    /\ win = "win2"
    /\ \E sq \in SeedChoices(candidates) :
         Becomes([World EXCEPT !.seedPapers = sq, !.win = "win3"])

\* win3.btnBegin, the settings form filled with one of cfgs
BeginIn(cfgs) ==
    /\ win = "win3" /\ enabled.win3
    /\ Len(inflight) < MaxInflight
    /\ total_records < MaxTotal
    /\ \A i \in 1..Len(seedPapers) : esc[seedPapers[i]] < MaxEsc
    /\ \E cfg \in cfgs :
         \E w2 \in begin_data_collection(World, cfg) : Becomes(w2)

\* win4.btnStopScrape
StopScrape ==
    /\ win4
    /\ Becomes(stop_scrape(World))

\* win0.btnResume, the file of the store chosen, fewer than n loads unanswered
ResumeSearchWithin(n) ==
    /\ win = "win0" /\ enabled.win0
    /\ header.exists
    /\ Len(inflight) < n
    /\ Becomes(do_resume_search([World EXCEPT !.FORCE_DELAY = checkDelay]))

\* win0.btnResume after the view has answered
ResumeSearch == ResumeSearchWithin(MaxInflight)

\* win0.btnResume, the view still loading or not
ResumeSearchSlow == ResumeSearchWithin(MaxInflightSlow)

\* win0.checkDelay clicked
ToggleDelay ==
    /\ win = "win0" /\ enabled.win0
    /\ Becomes([World EXCEPT !.checkDelay = ~@])

\* The process ends and is started again: the file stays, the object is new.
Restart ==
    /\ header.exists
    /\ dbcon
    /\ Becomes([World EXCEPT
          !.total_records = 0, !.ATTEMPTS = 0, !.was_paused = FALSE,
          !.to_be_dumped = <<>>, !.dbcon = FALSE,
          !.cursor_set = FALSE, !.current_level = 0, !.current_row = 0,
          !.progress = 0, !.level_limit = 0, !.max_level = 0, !.ppl = 0,
          !.maxpl = 0, !.use_percent = FALSE, !.scrape_done = FALSE,
          !.current_max_progress = 0, !.parent_bibtex = <<>>,
          !.inflight = <<>>, !.last_url = NoUrl,
          !.error_timer = FALSE, !.timeout_retry_timer = FALSE,
          !.timer = 0, !.ss = "none",
          !.goto_more = FALSE, !.lpList = <<>>, !.lpPapers = <<>>,
          !.lpCurr = 0, !.lpEnd = "none", !.lpOrigURL = NoUrl, !.win = "win0",
          !.win4 = FALSE, !.enabled = AllEnabled, !.seedPapers = <<>>,
          !.candidates = {}, !.esc = [p \in Papers |-> 0],
          !.FORCE_DELAY = FALSE, !.checkDelay = FALSE, !.exited = FALSE])

(***************************************************************************)
(* The crawl over a network that fails, answers with block pages and is    *)
(* slow.                                                                   *)
(***************************************************************************)
LoadFinished == LoadFinishedIn(BOOLEAN, CrawlPages, {<<1>>}, ShortPages)

BeginDataCollection ==
    BeginIn({[use_percent |-> FALSE, ppl |-> 50, maxpl |-> 1, max_level |-> 1]})

Next ==
    \/ LoadFinished
    \/ TimerWakeup
    \/ UrlTimeout
    \/ UrlRetry
    \/ Goto0
    \/ Goto2
    \/ Goto3
    \/ BeginDataCollection
    \/ StopScrape
    \/ ResumeSearch

Spec == Init /\ [][Next]_vars

(***************************************************************************)
(* The crawl over a network that answers every load with a clean page,     *)
(* the process ended and started again at any time.                        *)
(***************************************************************************)
LoadFinishedClean ==
    LoadFinishedIn({TRUE}, {CleanPage}, {<<1>>, <<2, 1>>, <<3>>}, PageChoices)

BeginCrawl == BeginIn(Configs)

\* The first search of a store file.
FirstSearch == ~header.exists /\ Goto0

NextCrawl ==
    \/ LoadFinishedClean
    \/ FirstSearch
    \/ Goto2
    \/ Goto3
    \/ BeginCrawl
    \/ StopScrape
    \/ ResumeSearch
    \/ Restart

SpecCrawl == Init /\ [][NextCrawl]_vars

(***************************************************************************)
(* The crawl of papers whose titles hold quote characters, over a network  *)
(* that answers every load with a clean page.                              *)
(***************************************************************************)
LoadFinishedQuotes ==
    LoadFinishedIn({TRUE}, {CleanPage}, {<<4>>, <<6>>},
                   {<<>>, <<5, 4>>, <<4, 5, 4>>, <<7, 6>>})

BeginQuotes ==
    BeginIn({[use_percent |-> FALSE, ppl |-> 50, maxpl |-> 11, max_level |-> 1]})

NextQuotes ==
    \/ LoadFinishedQuotes
    \/ FirstSearch
    \/ Goto2
    \/ Goto3
    \/ BeginQuotes
    \/ ResumeSearch
    \/ Restart

SpecQuotes == Init /\ [][NextQuotes]_vars

(***************************************************************************)
(* The crawl from one seed of any cited-by count with any setting of the   *)
(* sampling form.                                                          *)
(***************************************************************************)
CapConfigs ==
    {[use_percent |-> up, ppl |-> pc, maxpl |-> mp, max_level |-> 1] :
        up \in BOOLEAN, pc \in {1, 9, 33, 50, 100}, mp \in {1, 3}}

LoadFinishedCap ==
    LoadFinishedIn({TRUE}, {CleanPage}, {<<p>> : p \in CitedPapers}, ShortPages)

BeginCap == BeginIn(CapConfigs)

NextCap ==
    \/ LoadFinishedCap
    \/ FirstSearch
    \/ Goto2
    \/ Goto3
    \/ BeginCap

SpecCap == Init /\ [][NextCap]_vars

(***************************************************************************)
(* The seed search with every page detect_captcha can be shown.            *)
(***************************************************************************)
LoadFinishedAnyPage == LoadFinishedIn({TRUE}, Pages, {<<1>>}, ShortPages)

NextClassify ==
    \/ LoadFinishedAnyPage
    \/ ToggleDelay
    \/ Goto0
    \/ Goto2
    \/ TimerWakeup

SpecClassify == Init /\ [][NextClassify]_vars

(***************************************************************************)
(* The seed search over a network that fails and is slow: a load may stay  *)
(* unanswered beyond the 30 s of the error timer and the 5 minutes of the  *)
(* retry timer.                                                            *)
(***************************************************************************)
LoadFinishedSlow == LoadFinishedIn(BOOLEAN, {CleanPage}, {<<1>>}, ShortPages)

NextSlow ==
    \/ LoadFinishedSlow
    \/ UrlTimeout
    \/ UrlRetrySlow
    \/ Goto0
    \/ Goto2
    \/ Goto3

SpecSlow == Init /\ [][NextSlow]_vars

(***************************************************************************)
(* The crawl of long listings (eleven records a parent) over a network     *)
(* that answers with block pages.                                          *)
(***************************************************************************)
\* A listing page of ten links to papers 7 and 2; paper 7 has the key and the
\* title of paper 6.
QuotePage == [i \in 1..10 |-> IF i % 2 = 1 THEN 7 ELSE 2]

LoadFinishedBackoff ==
    LoadFinishedIn({TRUE}, CrawlPages, {<<1>>, <<6, 1>>},
                   PageChoices \cup {QuotePage})

BeginBackoff ==
    BeginIn({[use_percent |-> FALSE, ppl |-> 50, maxpl |-> 11, max_level |-> 1]})

NextBackoff ==
    \/ LoadFinishedBackoff
    \/ TimerWakeup
    \/ FirstSearch
    \/ Goto2
    \/ Goto3
    \/ BeginBackoff

SpecBackoff == Init /\ [][NextBackoff]_vars

(***************************************************************************)
(* The crawl left alone: every load is answered with a clean page, and the *)
(* user only searches, chooses the seeds and begins.                       *)
(***************************************************************************)
NextRun ==
    \/ LoadFinishedClean
    \/ FirstSearch
    \/ Goto2
    \/ Goto3
    \/ BeginCrawl

SpecRun == Init /\ [][NextRun]_vars

(***************************************************************************)
(* The crawl left alone over a store that can raise sqlite3.Error at any   *)
(* place of a flush; after exit(-1) the process takes no step.             *)
(***************************************************************************)
LoadFinishedFault ==
    LoadFinishedAt({TRUE}, {CleanPage}, {<<1>>, <<2, 1>>, <<3>>}, PageChoices,
                   Faults \cup {"none"})

NextFault ==
    \/ ~exited /\ LoadFinishedFault
    \/ ~exited /\ FirstSearch
    \/ ~exited /\ Goto2
    \/ ~exited /\ Goto3
    \/ ~exited /\ BeginCrawl

SpecFault == Init /\ [][NextFault]_vars

(***************************************************************************)
(* The crawl left alone, the search answered with two publications that    *)
(* share the key and the first author (papers 1 and 3) or not (2 and 3).   *)
(***************************************************************************)
LoadFinishedSeeds ==
    LoadFinishedIn({TRUE}, {CleanPage}, {<<1, 3>>, <<2, 3>>}, PageChoices)

NextSeeds ==
    \/ LoadFinishedSeeds
    \/ FirstSearch
    \/ Goto2
    \/ Goto3
    \/ BeginCrawl

SpecSeeds == Init /\ [][NextSeeds]_vars

(***************************************************************************)
(* The crawl over listings of publications of two keys, so that a store    *)
(* of three publications on three levels is reached; the user stops and    *)
(* resumes, and the process is ended and started again at any time.        *)
(***************************************************************************)
LevelPage == [i \in 1..10 |-> IF i % 2 = 1 THEN 2 ELSE 8]

LevelPages == {<<>>, <<2>>, <<8>>, <<1, 2>>, LevelPage}

LoadFinishedLevels ==
    LoadFinishedIn({TRUE}, {CleanPage}, {<<1>>, <<2, 1>>}, LevelPages)

NextLevels ==
    \/ LoadFinishedLevels
    \/ FirstSearch
    \/ Goto2
    \/ Goto3
    \/ BeginCrawl
    \/ StopScrape
    \/ ResumeSearch
    \/ Restart

SpecLevels == Init /\ [][NextLevels]_vars

(***************************************************************************)
(* The crawl of one seed to its end, after which the user gives the        *)
(* resume command, twice before the first load is answered or not.         *)
(***************************************************************************)
LoadFinishedStale == LoadFinishedIn({TRUE}, {CleanPage}, {<<1>>}, {<<>>, <<2>>})

NextStale ==
    \/ LoadFinishedStale
    \/ FirstSearch
    \/ Goto2
    \/ Goto3
    \/ BeginDataCollection
    \/ ResumeSearchSlow

SpecStale == Init /\ [][NextStale]_vars

(***************************************************************************)
(* The parser given the text of an export page: a record of two fields,    *)
(* well formed or not, or the record of the example.                       *)
(***************************************************************************)
KeyTitle == <<"t", "i", "t", "l", "e">>
KeyAuthor == <<"a", "u", "t", "h", "o", "r">>

\* "@article{a,title={Foo {Bar} Baz},author={X}}"
ExampleText ==
    <<"@", "a", "r", "t", "i", "c", "l", "e", "{", "a", ",">>
    \o KeyTitle \o <<"=", "{", "F", "o", "o", " ", "{", "B", "a", "r", "}", " ",
                     "B", "a", "z", "}", ",">>
    \o KeyAuthor \o <<"=", "{", "X", "}", "}">>

\* What may stand between the key and the first field, between two fields,
\* and at the end of the record.
KeySeps == {<<",">>, <<",", " ">>, <<",", "\n", " ", " ">>, <<>>, <<" ">>}
FieldSeps == {<<",">>, <<",", " ">>, <<",", "\n", " ", " ">>}
Closings == {<<"}">>, <<"\n", "}">>, <<>>}

\* Field values: braces balanced, one left open, one closed too often.
TitleValues ==
    {<<"F">>, <<"F", " ", "{", "B", "}", " ", "Z">>, <<"F", "{", "B">>,
     <<"F", "}", "B">>}
AuthorValues == {<<"X">>, <<"{", "Y", "}">>, <<"X", "{">>}

BibRecord(sep1, v1, sep2, v2, close) ==
    <<"@", "m", "{", "k">> \o sep1 \o KeyTitle \o <<"=", "{">> \o v1 \o <<"}">>
    \o sep2 \o KeyAuthor \o <<"=", "{">> \o v2 \o <<"}">> \o close

Texts ==
    {ExampleText} \cup
    {BibRecord(sep1, v1, sep2, v2, close) :
        sep1 \in KeySeps, v1 \in TitleValues, sep2 \in FieldSeps,
        v2 \in AuthorValues, close \in Closings}

InitParse ==
    /\ InitCrawl
    /\ bibtext \in Texts
    /\ bibdic = <<>>

\* d = self.bibtex2dic(text)
Parse ==
    /\ bibdic = <<>>
    /\ Becomes([World EXCEPT !.bibdic = bibtex2dic(bibtext)])

NextParse == Parse

SpecParse == InitParse /\ [][NextParse]_vars

(***************************************************************************)
(* Properties.                                                             *)
(***************************************************************************)
NoDupPubs(pubs) ==
    \A i, j \in 1..Len(pubs) :
        (pubs[i].bibtexkey = pubs[j].bibtexkey /\ pubs[i].title = pubs[j].title)
            => i = j

NoDupEdges(edges) == \A i, j \in 1..Len(edges) : edges[i] = edges[j] => i = j

Contains(after, before) ==
    \A i \in 1..Len(before) : \E j \in 1..Len(after) : after[j] = before[i]

\* The crawl under way was started by the resume command on a stored file.
Resumed == header.exists /\ ~goto_more

\* C1: every step of a resumed crawl, up to Done, keeps every publication row
\* and every edge row the store held before the step, and leaves no two
\* publication rows with the same (bibtexkey, title) and no two equal edge
\* rows; so the store at Done contains the store of the snapshot the crawl
\* was resumed from, without duplicates.
C1_ResumeEquivalence ==
    [][(Resumed /\ ~goto_more') =>
          /\ Contains(publications', publications)
          /\ Contains(citationrelationship', citationrelationship)
          /\ NoDupPubs(publications')
          /\ NoDupEdges(citationrelationship')]_vars

\* A resumed crawl reaches Done with a flush that adds a publication.
C1_Witness ==
    /\ Resumed
    /\ scrape_done
    /\ \E i \in 1..Len(saved) : saved[i].res = "ok" /\ saved[i].new_pub

\* C2: a flush of the pending batch in which the write of some record fails
\* leaves no publication row and no edge row of the batch in the store:
\* both tables are as they were before the flush.
C2_BatchAtomicity ==
    [][(\E i \in 1..Len(saved') : saved'[i].level > 0 /\ saved'[i].res # "ok")
          => /\ publications' = publications
             /\ citationrelationship' = citationrelationship]_vars

\* C3: when the crawl is Done, the header of the store says scrape_done = 1.
C3_DonePersisted == (header.exists /\ scrape_done) => header.scrape_done = "1"

\* The (bibtexkey, title) of pending record i has a publication row.
Stored(i) ==
    \E j \in 1..Len(publications) :
        /\ publications[j].bibtexkey = PaperKey(to_be_dumped[i][1])
        /\ publications[j].title = PaperTitle(to_be_dumped[i][1])

\* C4: once the user has stopped the crawl, every record that was pending in
\* memory has been written to the store.
C4_PauseFlushes == was_paused => \A i \in 1..Len(to_be_dumped) : Stored(i)

\* The step asks the web view for a load.
Issued ==
    /\ inflight' # inflight
    /\ \A i \in 1..Len(inflight) : inflight' # Without(inflight, i)

\* C5: while the stop flag stays latched and no resume command has been given
\* (which sets the stage to stage0), no step issues a fetch.
C5_NoFetchAfterStop ==
    [][(was_paused /\ was_paused' /\ ss' # "stage0") => ~Issued]_vars

\* C6: within one run of upserts, two upserts of the same (bibtexkey, title)
\* use the same pubid, and that pubid names exactly one publication row.
C6_DedupIdempotent ==
    \A i, j \in 1..Len(saved) :
        (saved[i].bibtexkey = saved[j].bibtexkey /\ saved[i].title = saved[j].title
         /\ saved[i].res # "raised" /\ saved[j].res # "raised")
            => /\ saved[i].pubid = saved[j].pubid
               /\ Cardinality({k \in 1..Len(publications) :
                                  publications[k].pubid = saved[j].pubid}) = 1

\* C7: an upsert whose edge row is already in the store reports success.
C7_EdgeIdempotent ==
    \A i \in 1..Len(saved) : saved[i].edge_dup => saved[i].res = "ok"

\* C8: no two publication rows of the store share a pubid.
C8_PubidUnique ==
    \A i, j \in 1..Len(publications) :
        publications[i].pubid = publications[j].pubid => i = j

\* floor(c * ppl / 100), 1 in place of a floor of 0 when c > 0; maxpl in fixed
\* mode.
IsKeep(k, c) ==
    IF use_percent
    THEN /\ 100 * k <= c * ppl \/ (k = 1 /\ c > 0)
         /\ c * ppl < 100 * (k + 1)
         /\ (c > 0) = (k > 0)
    ELSE k = maxpl

\* C9: for the parent row of the cursor, the cap computed by mrcd and the cap
\* computed by dump_papers are both floor(citedby * ppl / 100) clamped to 1
\* when citedby > 0 (0 when citedby = 0) in percent mode and maxpl in fixed
\* mode, and the cap mrcd stored while the entries of the listing are loaded
\* is that value.
C9_SamplingCap ==
    (header.exists /\ cursor_set /\ ppl \in 1..100
     /\ current_row + 1 <= Len(publications))
        => LET c == publications[current_row + 1].citedby
               m == mrcd_max_progress(c, use_percent, ppl, maxpl)
               d == dump_max_progress(c, use_percent, ppl, maxpl)
           IN  /\ IsKeep(m, c)
               /\ IsKeep(d, c)
               /\ (ss \in {"load_papers", "load_orig"} /\ lpEnd = "dump_papers"
                   /\ inflight # <<>>)
                     => current_max_progress = m

\* The listing of a parent cited less than 100 / ppl times is being loaded
\* with the cap clamped to 1.
C9_Witness ==
    /\ header.exists /\ cursor_set /\ use_percent
    /\ current_row + 1 <= Len(publications)
    /\ publications[current_row + 1].citedby > 0
    /\ publications[current_row + 1].citedby * ppl < 100
    /\ ss = "load_papers" /\ lpEnd = "dump_papers"
    /\ current_max_progress = 1

\* The class the priority order gives the page.
PriorityClass(sg) ==
    CASE sg.captcha_named \/ sg.captcha_id -> "Captcha"
      [] ~(sg.captcha_named \/ sg.captcha_id)
           /\ (sg.sorry_url \/ sg.automated_txt) -> "Block"
      [] ~(sg.captcha_named \/ sg.captcha_id)
           /\ ~(sg.sorry_url \/ sg.automated_txt) /\ sg.forbidden_txt -> "Forbidden"
      [] ~(sg.captcha_named \/ sg.captcha_id)
           /\ ~(sg.sorry_url \/ sg.automated_txt) /\ ~sg.forbidden_txt
           /\ sg.robot_txt -> "FalseAlarm"
      [] OTHER -> "Clean"

\* C10: the class detect_captcha gives the page it looked at is the first of
\* Captcha, Block, Forbidden, FalseAlarm whose signal the page shows, Clean
\* when it shows none.
C10_ClassPriority == status # "none" => status = PriorityClass(page)

\* A page with captcha markup and the block phrase is classified Captcha.
C10_Witness ==
    /\ status = "Captcha"
    /\ page.automated_txt /\ page.forbidden_txt /\ page.robot_txt

\* C11: with FORCE_DELAY off, a page classified Captcha arms a wait of
\* TIMEOUT_CAPTCHA + 30 * ATTEMPTS seconds and a page classified Block a wait
\* of TIMEOUT_BLOCK + 30 * ATTEMPTS seconds, ATTEMPTS being the counter before
\* the detection and the seconds those in which the Forbidden wait is 60, and
\* the counter is one more afterwards.
C11_EscalatingWait ==
    [][(~FORCE_DELAY /\ status' \in {"Captcha", "Block"}) =>
          /\ timer_seconds(timer') =
                (IF status' = "Captcha" THEN TIMEOUT_CAPTCHA ELSE TIMEOUT_BLOCK)
                + 30 * ATTEMPTS
          /\ ATTEMPTS' = ATTEMPTS + 1]_vars

\* C12: a page classified Forbidden arms a wait of 60 seconds whatever the
\* attempt counter is, and leaves the counter as it was.
C12_ForbiddenFixed ==
    [][status' = "Forbidden" =>
          /\ timer_seconds(timer') = 60
          /\ ATTEMPTS' = ATTEMPTS]_vars

\* The completion handler of the seed search did the work of its stage.
StageAdvanced ==
    /\ ss = "stage0" => (ss' = "stage1" /\ Issued)
    /\ ss = "stage1" => ss' = "stage2"
    /\ (ss = "stage2" /\ goto_more) => (ss' = "stage3" /\ Issued)
    /\ ss = "stage3" => ((ss' = "load_papers" /\ Issued) \/ win' = "win2")
    /\ ss = "load_papers" => (lpCurr' = lpCurr + 1 /\ Issued)
    /\ (ss = "load_orig" /\ lpEnd = "dogoto2") => win' = "win2"

\* C13: a page classified Clean or FalseAlarm arms no back-off wait, sets the
\* attempt counter to 0, and the completion is handled as its stage says.
C13_CleanResets ==
    [][status' \in {"Clean", "FalseAlarm"} =>
          /\ timer' = 0
          /\ ATTEMPTS' = 0
          /\ StageAdvanced]_vars

\* A false alarm on the page of the search results, the export page of its
\* entry requested.
C13_Witness ==
    /\ status = "FalseAlarm"
    /\ page.robot_txt
    /\ ss = "load_papers"
    /\ inflight # <<>>

\* C14: whenever a page is classified Captcha, with FORCE_DELAY on or off and
\* any attempt counter, the delay the timer is started with is at least
\* TIMEOUT_CAPTCHA.
C14_CaptchaAtLeastBase == status = "Captcha" => timer >= TIMEOUT_CAPTCHA

RECURSIVE BraceDepth(_, _)
\* The braces left open at the end of v, starting from d open; -1 once a
\* closing brace has no opening one.
BraceDepth(v, d) ==
    IF d < 0 \/ v = <<>> THEN d
    ELSE BraceDepth(Tail(v), IF Head(v) = "{" THEN d + 1
                             ELSE IF Head(v) = "}" THEN d - 1 ELSE d)

Balanced(v) == BraceDepth(v, 0) = 0

\* The mapping with the type, the key and the given fields.
Mapping(type, key, fields) ==
    [x \in {KeyType, KeyBibtexkey} \cup DOMAIN fields |->
        IF x = KeyType THEN type
        ELSE IF x = KeyBibtexkey THEN key ELSE fields[x]]

TitleAndAuthor(v1, v2) ==
    [x \in {KeyTitle, KeyAuthor} |-> IF x = KeyTitle THEN v1 ELSE v2]

TitleOnly(v1) == [x \in {KeyTitle} |-> v1]

\* C15: the parse of the example record maps title to "Foo {Bar} Baz" and
\* author to "X"; and the parse of every closed record with a comma after the
\* key and balanced values maps each field name, in full, to the text between
\* its opening brace and the matching closing brace.
C15_NestedBraces ==
    bibdic # <<>> =>
        /\ bibtext = ExampleText =>
              bibdic = Mapping(<<"a", "r", "t", "i", "c", "l", "e">>, <<"a">>,
                               TitleAndAuthor(<<"F", "o", "o", " ", "{", "B", "a",
                                                "r", "}", " ", "B", "a", "z">>,
                                              <<"X">>))
        /\ \A sep1 \in KeySeps, v1 \in TitleValues, sep2 \in FieldSeps,
              v2 \in AuthorValues, close \in Closings :
              (/\ bibtext = BibRecord(sep1, v1, sep2, v2, close)
               /\ sep1 # <<>> /\ Head(sep1) = ","
               /\ Balanced(v1) /\ Balanced(v2) /\ close # <<>>)
                 => bibdic = Mapping(<<"m">>, <<"k">>, TitleAndAuthor(v1, v2))

\* C16: the parse of a record without a comma after the key, or with a field
\* value whose braces do not balance, holds the type, the key and exactly the
\* fields that stand complete before that place, each with its own value.
C16_MalformedPrefix ==
    bibdic # <<>> =>
        \A sep1 \in KeySeps, v1 \in TitleValues, sep2 \in FieldSeps,
           v2 \in AuthorValues, close \in Closings :
           bibtext = BibRecord(sep1, v1, sep2, v2, close) =>
              /\ (sep1 = <<>> \/ Head(sep1) # ",")
                    => DOMAIN bibdic = {KeyType, KeyBibtexkey}
              /\ (sep1 # <<>> /\ Head(sep1) = "," /\ ~Balanced(v1))
                    => bibdic = Mapping(<<"m">>, <<"k">>, <<>>)
              /\ (sep1 # <<>> /\ Head(sep1) = "," /\ Balanced(v1)
                  /\ ~Balanced(v2))
                    => bibdic = Mapping(<<"m">>, <<"k">>, TitleOnly(v1))

\* C17: while the crawl is not Done the cursor is inside its level,
\* 0 <= current_row < level_limit, in memory and in the header of the store.
C17_RowInLevel ==
    /\ (cursor_set /\ ~scrape_done)
          => (0 <= current_row /\ current_row < level_limit)
    /\ (header.exists /\ header.scrape_done = "0")
          => (0 <= header.current_row
              /\ header.current_row < header.level_limit)

\* C18: scrape_done holds exactly when current_level = max_level, for the
\* cursor in memory after every handler and for the header of the store.
C18_DoneIffMaxLevel ==
    /\ cursor_set => (scrape_done <=> current_level = max_level)
    /\ header.exists
          => ((header.scrape_done = "1")
                 <=> header.current_level = header.max_level)

\* The crawl has just reached Done behind the last row of its last level.
C18_Witness ==
    /\ cursor_set /\ scrape_done
    /\ current_level = max_level
    /\ current_row = header.current_row + 1
    /\ saved # <<>>

\* The completion handler moved the cursor to the next parent row.
RowAdvanced ==
    /\ status' # "none"
    /\ ss \in {"load_orig", "next"}
    /\ current_row' = current_row + 1

\* C19: a step that advances current_row leaves progress at 0, and a write of
\* the header stores either progress 0 or the progress accumulated for the
\* row it stores, which is the row the cursor was on when the step began.
C19_ProgressOfRow ==
    [][/\ RowAdvanced => progress' = 0
       /\ (header'.exists /\ header' # header)
             => (header'.progress = 0 \/ header'.current_row = current_row)]_vars

\* The cursor has moved on from a row whose flush stored a progress above 0.
C19_Witness ==
    /\ status # "none"
    /\ cursor_set /\ progress = 0
    /\ current_row = header.current_row + 1
    /\ header.progress > 0

\* C20: at most one load is outstanding.
C20_SingleFetch == Len(inflight) <= 1


\* C21: the backoff timer and the connection-retry timer are never armed at
\* the same time.
C21_TimersExclusive == ~(timer > 0 /\ timeout_retry_timer)


\* Pending record i is in the store after the step: a publication row the
\* store identifies it with (same key, and same title or same author) and the
\* edge row from that publication to the parent.
WrittenAfter(i) ==
    LET e == EscapedPub(PaperDict(to_be_dumped[i][1], to_be_dumped[i][2]), 0)
    IN  \E j \in 1..Len(publications') :
          /\ publications'[j].bibtexkey = SqlSq(e.bibtexkey)
          /\ \/ publications'[j].title = SqlSq(e.title)
             \/ publications'[j].author = SqlSq(e.author)
          /\ \E k \in 1..Len(citationrelationship') :
               citationrelationship'[k]
                  = EdgeRow(publications'[j].pubid, parent_bibtex)

\* The step leaves the cursor where it was.
CursorKept ==
    /\ current_level' = current_level
    /\ current_row' = current_row
    /\ progress' = progress

\* The back-off timer fired in this step.
WokeUp == timer > 0 /\ timer' = 0 /\ status' = "none"

\* C22: a completion classified Captcha, Block or Forbidden writes every
\* pending record to the store and empties the batch, arms the back-off timer
\* and no other timer, and leaves the cursor as it was; the wake-up of the
\* back-off timer leaves the cursor as it was too.
C22_FlushBeforeWait ==
    [][/\ status' \in Blocking =>
            /\ \A i \in 1..Len(to_be_dumped) : WrittenAfter(i)
            /\ to_be_dumped' = <<>>
            /\ timer' > 0 /\ ~timeout_retry_timer' /\ ~error_timer'
            /\ CursorKept
       /\ WokeUp => CursorKept]_vars


\* C23: when the back-off timer fires, the stage and the index of the export
\* page being loaded are those the block was met in, and the load that met
\* the block is requested again.
C23_SameStageAfterWait ==
    [][WokeUp =>
          /\ ss' = ss
          /\ lpCurr' = lpCurr
          /\ inflight' = Append(inflight, last_url)]_vars


\* A load completed with ok = False and the handler was not paused.
FailedCompletion ==
    /\ ~was_paused
    /\ status' = "none"
    /\ \E i \in 1..Len(inflight) : inflight' = Without(inflight, i)

\* The retry timer fired in this step.
Retried ==
    timeout_retry_timer /\ ~timeout_retry_timer' /\ status' = "none" /\ Issued

\* C24: a completion with ok = False leaves the attempt counter, the stage,
\* the cursor, the pending batch and the store as they were, requests nothing
\* itself and arms the retry timer; the request that failed is the one the
\* retry timer will repeat (last_url), and when the retry timer fires it
\* requests exactly that url, once.
C24_FailureRetriesInPlace ==
    [][/\ FailedCompletion =>
            /\ ATTEMPTS' = ATTEMPTS /\ ss' = ss /\ lpCurr' = lpCurr
            /\ CursorKept
            /\ to_be_dumped' = to_be_dumped
            /\ publications' = publications /\ header' = header
            /\ timer' = timer
            /\ timeout_retry_timer'
            /\ \A i \in 1..Len(inflight) :
                  inflight' = Without(inflight, i) => inflight[i] = last_url
       /\ Retried =>
            /\ inflight' = Append(inflight, last_url)
            /\ last_url' = last_url]_vars


\* The web view delivered the completion of a load in this step.
Completed ==
    /\ inflight # <<>>
    /\ ss' # "none"
    /\ status' # "none" \/ \E i \in 1..Len(inflight) : inflight' = Without(inflight, i)

\* The first stages of a crawl started by the resume command.
Resuming == header.exists /\ ~goto_more /\ ss \in {"stage0", "stage1", "stage2"}

\* The completion was handled as the stage of the resumed crawl says: the
\* settings page is requested, the settings are saved, and the cited-by
\* listing of the stored row is requested at the stored offset.
ResumeAdvanced ==
    /\ ss = "stage0" => (ss' = "stage1" /\ Issued)
    /\ ss = "stage1" => ss' = "stage2"
    /\ ss = "stage2" =>
          \/ header.scrape_done = "1"
          \/ /\ ss' = "next" /\ Issued
             /\ last_url'.kind = "cites"
             /\ last_url'.start = header.progress
             /\ current_row' = header.current_row

\* C25: over a network that answers every load with a clean page, every
\* completion of the first stages of a resumed crawl is handled: none is
\* swallowed by the stop flag, and the last of them requests the cited-by
\* listing for the cursor of the header.
C25_ResumeHonoured == [][(Resuming /\ Completed) => ResumeAdvanced]_vars


\* The batch was flushed in this step.
Flushed == saved' # <<>> /\ \E i \in 1..Len(saved') : saved'[i].level > 0

\* C26: after a step that flushed the batch, the header of the store holds
\* the cursor the crawl continues with: current_level, current_row, progress,
\* level_limit and scrape_done of the header are those in memory.
C26_HeaderIsCursor ==
    [][Flushed =>
          /\ header'.current_level = current_level'
          /\ header'.current_row = current_row'
          /\ header'.progress = progress'
          /\ header'.level_limit = level_limit'
          /\ (header'.scrape_done = "1") = scrape_done']_vars


\* A listing page of a parent has been loaded with all its export pages and
\* dump_papers processes it in this step: the completion of the reload of the
\* listing, or of a listing without entries.
ListingProcessed ==
    /\ status' \in {"Clean", "FalseAlarm"}
    /\ dbcon /\ cursor_set
    /\ current_row + 1 <= Len(publications)
    /\ \/ ss = "load_orig" /\ lpEnd = "dump_papers"
       \/ ss = "next" /\ ss' # "load_papers"

\* The cap of the parent row of the cursor.
MaxProgress ==
    dump_max_progress(publications[current_row + 1].citedby, use_percent, ppl,
                      maxpl)

\* What the step queued: the progress it added.
Queued == Len(to_be_dumped') + Len(saved') - Len(to_be_dumped)

\* The enumeration of the parent ended in this step.
ParentEnded ==
    /\ to_be_dumped' = <<>>
    /\ progress' = 0
    /\ current_row' = current_row + 1

\* C27: when a listing page of a parent has been processed, the enumeration
\* of the parent ends (batch flushed and emptied, progress 0, current_row one
\* more) if the progress reached has come to the cap or the page held fewer
\* than 10 records; otherwise nothing is flushed, current_row is unchanged,
\* and, unless the user stopped the crawl meanwhile, the next listing page of
\* the parent is requested at offset progress.
C27_ParentEndsIff ==
    [][ListingProcessed =>
          LET n == IF ss = "next" THEN 0 ELSE Len(lpPapers)
          IN  IF progress + Queued >= MaxProgress \/ n < 10
              THEN ParentEnded
              ELSE /\ saved' = <<>> /\ header' = header
                   /\ current_row' = current_row
                   /\ progress' = progress + Queued
                   /\ ~win4' \/
                        (/\ Issued /\ ss' = "next"
                         /\ last_url' = Url("cites",
                                            publications[current_row + 1].cites,
                                            progress'))]_vars


\* A full listing page below the cap has just been processed: its ten records
\* are pending and the next page of the parent is requested at offset 10.
C27_Witness ==
    /\ status \in {"Clean", "FalseAlarm"}
    /\ ss = "next" /\ inflight # <<>>
    /\ progress = 10 /\ Len(to_be_dumped) = 10
    /\ last_url.kind = "cites" /\ last_url.start = 10
    /\ header.progress = 0


\* The export pages of a listing of the crawl are being loaded.
LoadingDetails ==
    /\ dbcon /\ cursor_set
    /\ current_row + 1 <= Len(publications)
    /\ ss \in {"load_papers", "load_orig"} /\ lpEnd = "dump_papers"

\* C28: the records queued for a parent, those of the listing page just
\* processed included, are never more than the cap of the parent (none when
\* the cap is 0), and the export pages loaded for one listing page are never
\* more than the quota left, the cap less the progress.
C28_WithinCap ==
    [][/\ ListingProcessed => progress + Queued <= MaxProgress
       /\ LoadingDetails => Len(lpList) <= MaxProgress - progress]_vars


\* The export page of entry lpCurr of the listing is the load outstanding.
DetailOutstanding(cur, list, fl) ==
    /\ cur < Len(list)
    /\ fl = <<Url("bibtex", list[cur + 1], 0)>>

\* C29: the export pages of a listing page are loaded one at a time in the
\* order of its entries: while they are loaded, entry lpCurr is the one
\* outstanding and the entries before it are
\* those kept; each completion keeps its text and requests the next entry,
\* or the listing again after the last one; the listing is reloaded only with
\* every entry kept once, in order; and records are added to the batch only
\* by the completion of that reload.
C29_DetailsInOrder ==
    [][/\ (ss = "load_papers" /\ inflight # <<>>) =>
            /\ DetailOutstanding(lpCurr, lpList, inflight)
            /\ lpPapers = SubSeq(lpList, 1, lpCurr)
       /\ (ss = "load_papers" /\ status' # "none") =>
            /\ lpList' = lpList
            /\ lpCurr' = lpCurr + 1
            /\ lpPapers' = Append(lpPapers, lpList[lpCurr + 1])
            /\ IF lpCurr' < Len(lpList)
               THEN ss' = "load_papers"
                    /\ DetailOutstanding(lpCurr', lpList', inflight')
               ELSE ss' = "load_orig" /\ inflight' = <<lpOrigURL>>
       /\ (ss = "load_orig" /\ inflight # <<>>) =>
            /\ lpCurr = Len(lpList)
            /\ lpPapers = lpList
            /\ inflight = <<lpOrigURL>>
       /\ Len(to_be_dumped') > Len(to_be_dumped) =>
            (ss = "load_orig" /\ lpEnd = "dump_papers" /\ status' # "none")]_vars

\* The listing page processed in this step completes its parent.
ParentCompleted ==
    /\ ListingProcessed
    /\ \/ progress + Queued >= MaxProgress
       \/ (IF ss = "next" THEN 0 ELSE Len(lpPapers)) < 10

\* A completion of the crawl of cited-by listings was handled in this step.
CrawlStep ==
    /\ status' # "none"
    /\ dbcon /\ cursor_set
    /\ ss \in {"next", "load_papers", "load_orig"}
    /\ ss = "next" \/ lpEnd = "dump_papers"

C31_NeverStalled ==
    (win4 /\ cursor_set /\ ~was_paused /\ ~scrape_done) => inflight # <<>>

\* C32: a step in which the store raised an error during a flush does not end
\* the process, and (unless the user closed the crawl window in that step or
\* the crawl is Done) it asks for the next load.
C32_FlushErrorRecovered ==
    [][dberror' # "none" =>
         /\ ~exited'
         /\ (Issued \/ scrape_done' \/ ~win4')]_vars


\* C33: from seed commit onwards the row limit of the level never exceeds the
\* number of stored publications, so the parent row the machine asks the
\* citing list for exists.
C33_LevelLimitWithinStore ==
    cursor_set => level_limit <= Len(publications)


\* Every stored publication has a searchlevel in 0..max_level-1.
LevelsInRange ==
    header.exists =>
        \A i \in 1..Len(publications) :
            publications[i].searchlevel \in 0..(header.max_level - 1)

\* Every publication of a level k > 0 is the citing end of an edge whose cited
\* end is a publication of level k - 1.
HasParentEdge ==
    \A i \in 1..Len(publications) :
        publications[i].searchlevel > 0 =>
            \E j \in 1..Len(publications), n \in 1..Len(citationrelationship) :
                /\ citationrelationship[n]
                      = <<publications[i].pubid, publications[j].pubid>>
                /\ publications[j].searchlevel = publications[i].searchlevel - 1

\* Both ends of every stored edge are stored publications.
EdgesClosed ==
    \A n \in 1..Len(citationrelationship) :
        \E i, j \in 1..Len(publications) :
            citationrelationship[n] = <<publications[i].pubid, publications[j].pubid>>

\* The seed commit stores the seeds at level 0 and writes no edge.
SeedCommit ==
    (~header.exists /\ header'.exists) =>
        /\ citationrelationship' = <<>>
        /\ \A i \in 1..Len(publications') : publications'[i].searchlevel = 0


\* C34: after every step the stored levels are in 0..max_level-1, every
\* publication of a level k > 0 cites a stored publication of level k - 1,
\* both ends of every edge are stored, and the seed commit stores the seeds at
\* level 0 without an edge.
C34_BreadthFirstLevels ==
    [][/\ LevelsInRange'
       /\ HasParentEdge'
       /\ EdgesClosed'
       /\ SeedCommit]_vars


\* C35: whenever the machine is Idle (the first window open and enabled, no
\* crawl window), where a crawl is started or resumed, the in-memory batch is
\* empty.
C35_BatchEmptyWhenIdle ==
    (win = "win0" /\ enabled.win0 /\ ~win4) => to_be_dumped = <<>>

=============================================================================
